---- MODULE Spec2Model ----
(***************************************************************************)
(* Model of the weather assistant (src/app.py): the /ask request handler   *)
(* with its poll / tool-dispatch loop, the tool dispatcher                 *)
(* get_outputs_for_tools, the weather client functions and the response    *)
(* formatter.  The assistant provider (threads, messages, runs) and the    *)
(* weather provider are the environment: their answers are chosen          *)
(* nondeterministically among the answers those services can give.         *)
(* Environment assumption used throughout: a call to the assistant         *)
(* provider returns (it does not raise).                                   *)
(***************************************************************************)
EXTENDS Integers, Sequences, FiniteSets, TLC

(***************************************************************************)
(* Bounds of the model.                                                    *)
(***************************************************************************)
\* number of requests of the one session that is modelled
MaxRequests == 2
\* largest number of tool calls in one required-action payload
MaxCalls == 2
\* largest number of times one run enters requires_action
MaxRounds == 1

\* longest text, in tokens, handed to the formatter on its own
MaxTextLen == 5

Reqs == 1..MaxRequests

(***************************************************************************)
(* Text.  A text is a sequence of tokens.  The single characters that the  *)
(* formatter's patterns are made of are tokens of their own ("*", " ",     *)
(* "-", "|", "\n"); a word that the formatter looks for as a whole         *)
(* ("Fahrenheit", "Celsius", the phrase "historical data" in either case)  *)
(* is one token; "w" is any other word.                                    *)
(***************************************************************************)
IsPrefix(p, s) == Len(p) <= Len(s) /\ SubSeq(s, 1, Len(p)) = p

\* str.replace(old, new): leftmost, non-overlapping occurrences, one pass
RECURSIVE replace(_, _, _)
replace(s, old, new) ==
    IF s = <<>> THEN <<>>
    ELSE IF IsPrefix(old, s)
         THEN new \o replace(SubSeq(s, Len(old) + 1, Len(s)), old, new)
         ELSE <<Head(s)>> \o replace(Tail(s), old, new)

\* str.lower(), on tokens
lower(s) == [i \in 1..Len(s) |-> IF s[i] = "Historical Data" THEN "historical data" ELSE s[i]]

\* a test that finds the phrase in every text
contains_always(s, tok) == TRUE

\* the `in` operator for a one-token needle
contains(s, tok) == \E i \in 1..Len(s) : s[i] = tok

format_weather_response(raw_text) ==
    LET formatted ==
            replace(replace(replace(replace(raw_text,
                <<"*", "*">>, <<"*">>),
                <<"Fahrenheit">>, <<"degF">>),
                <<"Celsius">>, <<"degC">>),
                <<" ", "-", " ">>, <<"\n", "-", " ">>)
    IN  IF contains(lower(formatted), "historical data")
        THEN replace(replace(formatted, <<"|">>, <<"\n", "|">>),
                     <<"-", "-", "-">>, <<"-", "-", "-">>)
        ELSE formatted

(***************************************************************************)
(* Python values, as far as the dispatcher looks at them: None, a string,  *)
(* a number (kept as its literal), a list of strings (kept joined), a dict *)
(* (a function from keys to values) and a weather record (kept as its      *)
(* serialized text).                                                       *)
(***************************************************************************)
PyNone == [t |-> "None", s |-> ""]
PyStr(x) == [t |-> "str", s |-> x]
PyNum(x) == [t |-> "num", s |-> x]
PyList(x) == [t |-> "list", s |-> x]
PyDict(f) == [t |-> "dict", d |-> f]
WeatherRecord == [t |-> "record", s |-> "{\"main\": {\"temp\": 280.3}}"]

\* truthiness of a value
truthy(v) ==
    CASE v.t = "None" -> FALSE
      [] v.t = "str" -> v.s # ""
      [] v.t = "num" -> v.s # "0"
      [] v.t = "list" -> v.s # ""
      [] OTHER -> TRUE

\* the outcome of a call: a returned value or a raised exception, with the
\* underlying operations it invoked
Return(v, calls) == [raised |-> FALSE, value |-> v, msg |-> "", calls |-> calls]
Raise(msg, calls) == [raised |-> TRUE, value |-> PyNone, msg |-> msg, calls |-> calls]

(***************************************************************************)
(* JSON.  The texts that parse, with the value each parses to; every other *)
(* text of the model fails to parse.                                       *)
(***************************************************************************)
JSONTexts ==
    ( "null" :> PyNone )
 @@ ( "5" :> PyNum("5") )
 @@ ( "1680964200" :> PyNum("1680964200") )
 @@ ( "\"London\"" :> PyStr("London") )
 @@ ( "[\"London\"]" :> PyList("London") )
 @@ ( "{}" :> PyDict(<<>>) )
 @@ ( "{\"city_name\": \"London\"}" :> PyDict([city_name |-> PyStr("London")]) )
 @@ ( "{\"state_code\": \"CA\"}" :> PyDict([state_code |-> PyStr("CA")]) )
 @@ ( "{\"city_name\": \"London\", \"exclude\": [\"minutely\", \"hourly\"]}"
        :> PyDict([city_name |-> PyStr("London"), exclude |-> PyList("minutely,hourly")]) )
 @@ ( "{\"lat\": 51.5, \"lon\": -0.12, \"exclude\": 5}"
        :> PyDict([lat |-> PyNum("51.5"), lon |-> PyNum("-0.12"), exclude |-> PyNum("5")]) )
 @@ ( "{\"lat\": 51.5, \"lon\": -0.12, \"start\": 1680964200, \"cnt\": 3}"
        :> PyDict([lat |-> PyNum("51.5"), lon |-> PyNum("-0.12"),
                   start |-> PyNum("1680964200"), cnt |-> PyNum("3")]) )
 @@ ( "{\"dt\": \"2023-04-08T14:30:00\"}" :> PyDict([dt |-> PyStr("2023-04-08T14:30:00")]) )
 @@ ( "{\"dt\": \"tomorrow\"}" :> PyDict([dt |-> PyStr("tomorrow")]) )
 @@ ( "{\"main\": {\"temp\": 280.3}}" :> WeatherRecord )

\* json.dumps(value, default=str)
json_dumps(v) ==
    CASE v.t = "None" -> "null"
      [] v.t = "str" -> "\"" \o v.s \o "\""
      [] OTHER -> v.s

\* json.dumps({key: text})
json_dumps_object(key, text) == "{\"" \o key \o "\": \"" \o text \o "\"}"

\* the text is the serialization of a one-key object, as json.dumps writes it
\* for the keys the program uses
ObjectKeys == {"error", "result"}
IsObjectOf(text, key) ==
    LET open == "{\"" \o key \o "\": \""
        close == "\"}"
    IN  /\ Len(text) >= Len(open) + Len(close)
        /\ SubSeq(text, 1, Len(open)) = open
        /\ SubSeq(text, Len(text) - Len(close) + 1, Len(text)) = close
ObjectText(text, key) ==
    SubSeq(text, Len("{\"" \o key \o "\": \"") + 1, Len(text) - Len("\"}"))

\* a parser that lets every text through
json_loads_lenient(text) ==
    [ok |-> TRUE, msg |-> "",
     value |-> IF text \in DOMAIN JSONTexts THEN JSONTexts[text] ELSE PyNone]

\* json.loads: [ok, value] or [~ok, msg] (json.JSONDecodeError)
json_loads(text) ==
    IF text \in DOMAIN JSONTexts
    THEN [ok |-> TRUE, value |-> JSONTexts[text], msg |-> ""]
    ELSE IF \E key \in ObjectKeys : IsObjectOf(text, key)
    THEN LET key == CHOOSE k \in ObjectKeys : IsObjectOf(text, k)
         IN  [ok |-> TRUE, value |-> PyDict(key :> PyStr(ObjectText(text, key))), msg |-> ""]
    ELSE [ok |-> FALSE, value |-> PyNone, msg |-> "Expecting value: line 1 column 1 (char 0)"]

\* dict.get(key, default); on a value that is no dict the attribute lookup fails
HasGet(args) == args.t = "dict"
Get(args, key, default) == IF key \in DOMAIN args.d THEN args.d[key] ELSE default

(***************************************************************************)
(* The weather provider.  One dispatch sees one answer of each endpoint:   *)
(*   geo  - the geocoding lookup,                                          *)
(*   http - the conditions / history fetch,                                *)
(* and the installed HTTP library either derives its JSON decoding error   *)
(* from RequestException or raises a plain ValueError.                     *)
(***************************************************************************)
GeoOutcomes == {"transport_error", "http_error", "bad_json", "empty", "no_latlon", "match"}
HttpOutcomes == {"transport_error", "http_error", "bad_json", "ok"}
Envs == [geo : GeoOutcomes, http : HttpOutcomes, json_error_is_request_exception : BOOLEAN]

get_openweather_onecall(lat, lon, api_key, exclude, env) ==
    LET calls == <<"get_openweather_onecall">> IN
    IF truthy(exclude) /\ exclude.t \notin {"str", "list"}
    THEN Raise("can only join an iterable", calls)
    ELSE CASE env.http = "ok" -> Return(WeatherRecord, calls)
           [] env.http \in {"transport_error", "http_error"} -> Return(PyNone, calls)
           [] env.http = "bad_json" ->
                IF env.json_error_is_request_exception
                THEN Return(PyNone, calls)
                ELSE Raise("Expecting value: line 1 column 1 (char 0)", calls)

get_weather_by_city(city_name, api_key, country_code, state_code, exclude, env) ==
    LET calls == <<"get_weather_by_city">> IN
    IF city_name.t # "str" /\ (truthy(state_code) \/ truthy(country_code))
    THEN Raise("unsupported operand type(s) for +=: 'NoneType' and 'str'", calls)
    ELSE CASE env.geo \in {"transport_error", "http_error"} -> Return(PyNone, calls)
           [] env.geo = "bad_json" ->
                IF env.json_error_is_request_exception
                THEN Return(PyNone, calls)
                ELSE Raise("Expecting value: line 1 column 1 (char 0)", calls)
           [] env.geo = "empty" -> Return(PyNone, calls)
           [] env.geo = "no_latlon" -> Raise("'lat'", calls)
           [] env.geo = "match" ->
                LET r == get_openweather_onecall(PyNum("51.5"), PyNum("-0.12"),
                                                 api_key, exclude, env)
                IN  [r EXCEPT !.calls = calls \o r.calls]

get_historical_weather(lat, lon, api_key, start, cnt, data_type, env) ==
    LET calls == <<"get_historical_weather">> IN
    CASE env.http = "ok" -> Return(WeatherRecord, calls)
      [] env.http \in {"transport_error", "http_error"} -> Return(PyNone, calls)
      [] env.http = "bad_json" ->
            IF env.json_error_is_request_exception
            THEN Return(PyNone, calls)
            ELSE Raise("Expecting value: line 1 column 1 (char 0)", calls)

\* datetime.fromisoformat, on the datetime strings of the model
ISODateTimes == ( "2023-04-08T14:30:00" :> "1680964200" )

fromisoformat(dt) ==
    LET calls == <<"fromisoformat">> IN
    IF dt.t # "str" THEN Raise("fromisoformat: argument must be str", calls)
    ELSE IF dt.s \notin DOMAIN ISODateTimes
         THEN Raise("Invalid isoformat string: '" \o dt.s \o "'", calls)
         ELSE Return([t |-> "datetime", s |-> dt.s], calls)

\* int(dt.replace(tzinfo=timezone.utc).timestamp())
datetime_to_utc_timestamp(dt) ==
    Return(PyNum(ISODateTimes[dt.s]), <<"datetime_to_utc_timestamp">>)

(***************************************************************************)
(* The tool dispatcher.  A tool call is [id, name, arguments].             *)
(***************************************************************************)
ToolNames == {"get_weather_by_city", "get_openweather_onecall",
              "get_historical_weather", "datetime_to_utc_timestamp"}

\* type(value).__name__
TypeName(v) ==
    CASE v.t = "None" -> "NoneType"
      [] v.t = "num" -> "int"
      [] OTHER -> v.t

\* the lambdas of tool_dispatcher, on a dict of arguments
invoke_tool(tool_name, args, env) ==
         CASE tool_name = "get_weather_by_city" ->
                get_weather_by_city(Get(args, "city_name", PyNone), Get(args, "api_key", PyNone),
                                    Get(args, "country_code", PyNone),
                                    Get(args, "state_code", PyNone),
                                    Get(args, "exclude", PyNone), env)
           [] tool_name = "get_openweather_onecall" ->
                get_openweather_onecall(Get(args, "lat", PyNone), Get(args, "lon", PyNone),
                                        Get(args, "api_key", PyNone),
                                        Get(args, "exclude", PyNone), env)
           [] tool_name = "get_historical_weather" ->
                get_historical_weather(Get(args, "lat", PyNone), Get(args, "lon", PyNone),
                                       Get(args, "api_key", PyNone), Get(args, "start", PyNone),
                                       Get(args, "cnt", PyNone),
                                       Get(args, "data_type", PyStr("hour")), env)
           [] tool_name = "datetime_to_utc_timestamp" ->
                LET dt == fromisoformat(Get(args, "dt", PyNone)) IN
                IF dt.raised THEN dt
                ELSE LET r == datetime_to_utc_timestamp(dt.value)
                     IN  [r EXCEPT !.calls = dt.calls \o r.calls]

\* a dispatcher that reads arguments that are no object as {}
tool_dispatcher_defaulting(tool_name, args, env) ==
    IF tool_name \notin ToolNames
    THEN Raise("'" \o tool_name \o "'", <<>>)
    ELSE invoke_tool(tool_name, IF HasGet(args) THEN args ELSE PyDict(<<>>), env)

\* tool_dispatcher[tool_name](arguments): the lookup of the name, then the
\* lambda, whose first step is arguments.get
tool_dispatcher(tool_name, args, env) ==
    IF tool_name \notin ToolNames
    THEN Raise("'" \o tool_name \o "'", <<>>)
    ELSE IF ~HasGet(args)
    THEN Raise("'" \o TypeName(args) \o "' object has no attribute 'get'", <<>>)
    ELSE invoke_tool(tool_name, args, env)

\* a dispatcher that looks every name up
known_tool_unchecked(tool_name) == TRUE

\* tool_name in tool_dispatcher
known_tool(tool_name) == tool_name \in ToolNames

\* the body of the dispatcher's try block: the dict it returns, or the
\* exception that reaches the handler at the dispatcher's boundary
dispatch_try(tool_call, env) ==
    LET parsed == json_loads(tool_call.arguments) IN
    IF ~parsed.ok
    THEN [raised |-> FALSE, msg |-> "", calls |-> <<>>,
          result |-> [tool_call_id |-> tool_call.id,
                      error |-> "Invalid JSON in arguments: " \o parsed.msg]]
    ELSE IF ~known_tool(tool_call.name)
    THEN [raised |-> FALSE, msg |-> "", calls |-> <<>>,
          result |-> [tool_call_id |-> tool_call.id,
                      error |-> "Unknown tool: " \o tool_call.name]]
    ELSE LET r == tool_dispatcher(tool_call.name, parsed.value, env) IN
         IF r.raised
         THEN [raised |-> TRUE, msg |-> r.msg, calls |-> r.calls,
               result |-> [tool_call_id |-> tool_call.id]]
         ELSE [raised |-> FALSE, msg |-> "", calls |-> r.calls,
               result |-> [tool_call_id |-> tool_call.id,
                           output |-> json_dumps(r.value)]]

\* a boundary that lets the exception through
dispatch_except_reraises(tool_call, body) ==
    [escaped |-> TRUE, calls |-> body.calls, result |-> [tool_call_id |-> tool_call.id]]

\* traceback.format_exc() for the exception being handled
format_exc(msg) == "Traceback (most recent call last): " \o msg

\* an except clause that drops the exception's message
dispatch_except_without_message(tool_call, body) ==
    [escaped |-> FALSE, calls |-> body.calls,
     result |-> [tool_call_id |-> tool_call.id, error |-> "Error executing tool"],
     printed |-> "Error executing tool" \o "\n" \o format_exc(body.msg),
     span |-> [level |-> "ERROR", error |-> "Error executing tool",
               traceback |-> format_exc(body.msg)]]

\* the except clause at the dispatcher's boundary: the dict it returns, what
\* it prints and what it hands to the tracing span
dispatch_except(tool_call, body) ==
    LET error_details == format_exc(body.msg)
        error_msg == "Error executing tool: " \o body.msg
    IN  [escaped |-> FALSE, calls |-> body.calls,
         result |-> [tool_call_id |-> tool_call.id, error |-> error_msg],
         printed |-> error_msg \o "\n" \o error_details,
         span |-> [level |-> "ERROR", error |-> error_msg, traceback |-> error_details]]

\* the dispatcher: [escaped, result, calls, printed, span]; result is the dict
\* returned, with key tool_call_id and the keys output / error it sets;
\* escaped says that an exception left the dispatcher instead; calls are the
\* operations invoked
get_outputs_for_tools(tool_call, env) ==
    LET body == dispatch_try(tool_call, env) IN
    IF body.raised
    THEN dispatch_except(tool_call, body)
    ELSE [escaped |-> FALSE, calls |-> body.calls, result |-> body.result,
          printed |-> "",
          span |-> [level |-> IF "error" \in DOMAIN body.result
                              THEN "ERROR" ELSE "DEFAULT"]]

(***************************************************************************)
(* The request handler's own steps on a dispatch result (ask).             *)
(***************************************************************************)
\* a loop body without the validation
validate_result_skipped(result) == result

\* "Validate output format"
validate_result(result) ==
    IF "output" \notin DOMAIN result /\ "error" \notin DOMAIN result
    THEN result @@ [error |-> "Invalid tool response format"]
    ELSE result

\* "Force all outputs to be JSON strings"
force_json(result) ==
    IF "output" \in DOMAIN result /\ ~json_loads(result.output).ok
    THEN [result EXCEPT !.output = json_dumps_object("result", result.output)]
    ELSE result

\* an entry that carries the error message as it is
submit_entry_raw_error(output) ==
    [tool_call_id |-> output.tool_call_id,
     output |-> IF "output" \in DOMAIN output THEN output.output ELSE output.error]

\* one entry of the list handed to submit_tool_outputs
submit_entry(output) ==
    [tool_call_id |-> output.tool_call_id,
     output |-> IF "output" \in DOMAIN output /\ output.output # ""
                THEN output.output
                ELSE IF "error" \in DOMAIN output
                     THEN json_dumps_object("error", output.error)
                     ELSE "{\"error\": null}"]

\* a batch that leaves out the results that carry no output
submit_entries_outputs_only(tool_outputs) ==
    LET kept == SelectSeq(tool_outputs, LAMBDA o : "output" \in DOMAIN o)
    IN  [i \in 1..Len(kept) |-> submit_entry(kept[i])]

submit_entries(tool_outputs) ==
    [i \in 1..Len(tool_outputs) |-> submit_entry(tool_outputs[i])]

(***************************************************************************)
(* The assistant provider's vocabulary.                                    *)
(***************************************************************************)
\* statuses on which the handler leaves its loop
ExitStatuses == {"completed", "failed", "expired"}
\* statuses on which create_and_poll returns
PollStopStatuses == {"requires_action", "completed", "failed", "expired",
                     "cancelled", "incomplete"}
\* statuses the provider never leaves
FinalStatuses == {"completed", "failed", "expired", "cancelled", "incomplete"}
RunStatuses == {"queued", "in_progress"} \cup PollStopStatuses

\* what the assistant is asked and what it answers
QuestionTexts == { <<"w", "Celsius">> }
AssistantContents == { << <<"*", "*", "w", "*", "*", " ", "Fahrenheit">>, <<"w">> >> }

\* the request bodies: the question key absent, empty, or a question
RequestBodies == { <<>> } \cup { [question |-> q] : q \in QuestionTexts \cup { <<>> } }

\* the tool calls the assistant asks for
ToolCallSamples ==
    << [name |-> "get_weather_by_city", arguments |-> "{\"city_name\": \"London\"}"],
       [name |-> "get_historical_weather", arguments |-> "<not valid JSON>"],
       [name |-> "unknown_tool", arguments |-> "{}"],
       [name |-> "datetime_to_utc_timestamp", arguments |-> "{\"dt\": \"tomorrow\"}"] >>

\* the sample that stands i-th in the payload that starts with sample s
SampleAt(s, i) == ToolCallSamples[((s + i - 2) % Len(ToolCallSamples)) + 1]

\* the required-action payloads of run k in its round n: 0..MaxCalls tool
\* calls, consecutive samples, each with an id of its own
Payloads(k, n) ==
    { [i \in 1..len |-> [id |-> <<k, n, i>>, name |-> SampleAt(s, i).name,
                         arguments |-> SampleAt(s, i).arguments]]
        : s \in 1..Len(ToolCallSamples), len \in 0..MaxCalls }

VARIABLES
    store,          \* the session store: the session's dict as last saved
    threads,        \* provider: thread id -> [created_by, messages], newest message first
    runs,           \* provider: run id -> [thread_id, started_by, status, tool_calls,
                    \*                     tool_outputs, rounds]
    pc,             \* per request: where its handler stands
    data,           \* per request: the JSON body
    sess,           \* per request: the session dict loaded for it, and its modified flag
    thread_id,      \* per request: local thread_id (0: not yet assigned)
    run,            \* per request: local run object [id, status, tool_calls]
    tool_outputs,   \* per request: local tool_outputs
    response,       \* per request: [code, body] once returned
    calls,          \* per request: provider calls made so far, by kind
    unit            \* the dispatcher applied to one tool call on its own

vars == <<store, threads, runs, pc, data, sess, thread_id, run, tool_outputs,
          response, calls, unit>>

NoRun == [id |-> 0, status |-> "none", tool_calls |-> <<>>]
NoResponse == [code |-> 0, body |-> [pending |-> TRUE]]
NoCalls == [create_thread |-> 0, create_message |-> 0, create_run |-> 0]
NoUnit == [at |-> "off"]

InitAsk ==
    /\ store = <<>>
    /\ threads = <<>>
    /\ runs = <<>>
    /\ pc = [r \in Reqs |-> "idle"]
    /\ data = [r \in Reqs |-> <<>>]
    /\ sess = [r \in Reqs |-> [dict |-> <<>>, modified |-> FALSE]]
    /\ thread_id = [r \in Reqs |-> 0]
    /\ run = [r \in Reqs |-> NoRun]
    /\ tool_outputs = [r \in Reqs |-> <<>>]
    /\ response = [r \in Reqs |-> NoResponse]
    /\ calls = [r \in Reqs |-> NoCalls]

Init == InitAsk /\ unit = NoUnit

(***************************************************************************)
(* ask: the request handler.                                               *)
(***************************************************************************)
\* a check for the missing key only
no_question_key_only(body) == "question" \notin DOMAIN body

\* `not question` for question = data.get("question")
no_question(body) == "question" \notin DOMAIN body \/ body.question = <<>>

\* requests of the session are handled one after the other
Sequential(r) == \A o \in Reqs : IF o < r THEN pc[o] = "done" ELSE pc[o] = "idle"

\* the request arrives: the session is loaded, the question is checked
Arrive(r) ==
    /\ pc[r] = "idle"
    /\ \E body \in RequestBodies :
        /\ data' = [data EXCEPT ![r] = body]
        /\ sess' = [sess EXCEPT ![r] = [dict |-> store, modified |-> FALSE]]
        /\ IF no_question(body)
           THEN /\ response' = [response EXCEPT ![r] =
                        [code |-> 400, body |-> [error |-> "No question provided"]]]
                /\ pc' = [pc EXCEPT ![r] = "done"]
           ELSE /\ response' = response
                /\ pc' = [pc EXCEPT ![r] = "thread"]
    /\ UNCHANGED <<store, threads, runs, thread_id, run, tool_outputs, calls, unit>>

\* a request sent once the answer to the one before it is there
Receive(r) == Sequential(r) /\ Arrive(r)

\* a handler that opens a thread for every question
needs_thread_always(session) == TRUE

\* "thread_id" not in session
needs_thread(session) == "thread_id" \notin DOMAIN session

\* the thread of the session is created if the session holds none
EnsureThread(r) ==
    /\ pc[r] = "thread"
    /\ IF needs_thread(sess[r].dict)
       THEN /\ threads' = Append(threads, [created_by |-> r, messages |-> <<>>])
            /\ sess' = [sess EXCEPT ![r] =
                    [dict |-> [thread_id |-> Len(threads) + 1], modified |-> TRUE]]
            /\ calls' = [calls EXCEPT ![r].create_thread = @ + 1]
            /\ thread_id' = [thread_id EXCEPT ![r] = Len(threads) + 1]
       ELSE /\ UNCHANGED <<threads, sess, calls>>
            /\ thread_id' = [thread_id EXCEPT ![r] = sess[r].dict.thread_id]
    /\ pc' = [pc EXCEPT ![r] = "message"]
    /\ UNCHANGED <<store, runs, data, run, tool_outputs, response, unit>>

\* a create call that is sent twice
user_message_twice(question) ==
    << [role |-> "user", content |-> <<question>>],
       [role |-> "user", content |-> <<question>>] >>

\* the messages that messages.create(role="user", content=question) adds
user_message(question) == << [role |-> "user", content |-> <<question>>] >>

\* client.beta.threads.messages.create(thread_id, role="user", content=question)
CreateMessage(r) ==
    /\ pc[r] = "message"
    /\ threads' = [threads EXCEPT ![thread_id[r]].messages =
            user_message(data[r].question) \o @]
    /\ calls' = [calls EXCEPT ![r].create_message = @ + 1]
    /\ pc' = [pc EXCEPT ![r] = "run"]
    /\ UNCHANGED <<store, runs, data, sess, thread_id, run, tool_outputs, response, unit>>

\* what a run does next, seen from outside: it asks for tool calls (round n of
\* run k, while rounds are left), or it ends; says is the content of the
\* assistant message it leaves on the thread, <<>> for none.  The count of
\* rounds bounds the model only and is dropped when the run ends.
Outcomes(k, n) ==
    { [status |-> "requires_action", tool_calls |-> p, says |-> <<>>]
        : p \in IF n <= MaxRounds THEN Payloads(k, n) ELSE {} }
    \cup { [status |-> "completed", tool_calls |-> <<>>, says |-> c]
            : c \in AssistantContents }
    \cup { [status |-> st, tool_calls |-> <<>>, says |-> c]
            : st \in {"failed", "expired"}, c \in AssistantContents \cup { <<>> } }
    \cup { [status |-> st, tool_calls |-> <<>>, says |-> <<>>]
            : st \in {"cancelled", "incomplete"} }

\* the thread after the run's outcome o
Spoken(thread, o) ==
    IF o.says = <<>> THEN thread
    ELSE [thread EXCEPT !.messages = << [role |-> "assistant", content |-> o.says] >> \o @]

\* client.beta.threads.runs.create_and_poll(thread_id, assistant_id): the run
\* is started and the call returns once the run needs tool outputs or has ended
CreateAndPoll(r) ==
    /\ pc[r] = "run"
    /\ \E o \in Outcomes(Len(runs) + 1, 1) :
        /\ runs' = Append(runs, [thread_id |-> thread_id[r], started_by |-> r,
                                 status |-> o.status,
                                 tool_calls |-> o.tool_calls, tool_outputs |-> <<>>,
                                 rounds |-> IF o.status = "requires_action" THEN 1 ELSE 0])
        /\ threads' = [threads EXCEPT ![thread_id[r]] = Spoken(@, o)]
        /\ run' = [run EXCEPT ![r] = [id |-> Len(runs) + 1, status |-> o.status,
                                      tool_calls |-> o.tool_calls]]
    /\ calls' = [calls EXCEPT ![r].create_run = @ + 1]
    /\ pc' = [pc EXCEPT ![r] = "loop"]
    /\ UNCHANGED <<store, data, sess, thread_id, tool_outputs, response, unit>>

\* loop top, run.status == "requires_action": tool_outputs = []
BeginToolCalls(r) ==
    /\ pc[r] = "loop"
    /\ run[r].status = "requires_action"
    /\ tool_outputs' = [tool_outputs EXCEPT ![r] = <<>>]
    /\ pc' = [pc EXCEPT ![r] = "tools"]
    /\ UNCHANGED <<store, threads, runs, data, sess, thread_id, run, response, calls, unit>>

\* one iteration of `for tool_call in tool_calls`; an exception leaving the
\* dispatcher would leave the handler too
DispatchTool(r) ==
    /\ pc[r] = "tools"
    /\ Len(tool_outputs[r]) < Len(run[r].tool_calls)
    /\ \E env \in Envs :
        LET tool_call == run[r].tool_calls[Len(tool_outputs[r]) + 1]
            got == get_outputs_for_tools(tool_call, env)
        IN  IF got.escaped
            THEN /\ response' = [response EXCEPT ![r] =
                        [code |-> 500, body |-> [error |-> "Internal Server Error"]]]
                 /\ pc' = [pc EXCEPT ![r] = "done"]
                 /\ tool_outputs' = [tool_outputs EXCEPT ![r] = <<>>]
            ELSE /\ tool_outputs' = [tool_outputs EXCEPT ![r] =
                        Append(@, force_json(validate_result(got.result)))]
                 /\ UNCHANGED <<response, pc>>
    /\ UNCHANGED <<store, threads, runs, data, sess, thread_id, run, calls, unit>>

\* client.beta.threads.runs.submit_tool_outputs(thread_id, run_id, tool_outputs),
\* the call: the provider takes the batch and queues the run again.  The
\* local tool_outputs is not read again before the next `tool_outputs = []`.
SubmitToolOutputs(r) ==
    /\ pc[r] = "tools"
    /\ Len(tool_outputs[r]) = Len(run[r].tool_calls)
    /\ runs' = [runs EXCEPT ![run[r].id] =
            [@ EXCEPT !.status = "queued", !.tool_outputs = submit_entries(tool_outputs[r])]]
    /\ tool_outputs' = [tool_outputs EXCEPT ![r] = <<>>]
    /\ pc' = [pc EXCEPT ![r] = "submitting"]
    /\ UNCHANGED <<store, threads, data, sess, thread_id, run, response, calls, unit>>

\* run = ...submit_tool_outputs(...), the answer: the run as the provider holds
\* it by then
SubmitReturn(r) ==
    /\ pc[r] = "submitting"
    /\ run' = [run EXCEPT ![r] = [id |-> run[r].id, status |-> runs[run[r].id].status,
                                  tool_calls |-> runs[run[r].id].tool_calls]]
    /\ pc' = [pc EXCEPT ![r] = "check"]
    /\ UNCHANGED <<store, threads, runs, data, sess, thread_id, tool_outputs,
                   response, calls, unit>>

\* a check that forgets the expired runs
is_complete_without_expired(status) == status \in {"completed", "failed"}

\* a check that takes every status the provider never leaves
is_complete_any_final(status) == status \in FinalStatuses

\* run.status in ["completed", "failed", "expired"]
is_complete(status) == status \in ExitStatuses

\* the handler stands at "Check if run is complete"
AtCheck(r) == pc[r] = "check" \/ (pc[r] = "loop" /\ run[r].status # "requires_action")

\* not complete: time.sleep(1)
Sleep(r) ==
    /\ AtCheck(r)
    /\ ~is_complete(run[r].status)
    /\ pc' = [pc EXCEPT ![r] = "sleep"]
    /\ UNCHANGED <<store, threads, runs, data, sess, thread_id, run, tool_outputs,
                   response, calls, unit>>

\* run = client.beta.threads.runs.retrieve(thread_id, run_id)
Retrieve(r) ==
    /\ pc[r] = "sleep"
    /\ run' = [run EXCEPT ![r] = [id |-> run[r].id, status |-> runs[run[r].id].status,
                                  tool_calls |-> runs[run[r].id].tool_calls]]
    /\ pc' = [pc EXCEPT ![r] = "loop"]
    /\ UNCHANGED <<store, threads, runs, data, sess, thread_id, tool_outputs,
                   response, calls, unit>>

\* client.beta.threads.messages.list(thread_id).data[0].content[0].text.value
final_text(thread) == thread.messages[1].content[1]

\* format_weather_response on the texts a thread can hold, tabulated
ThreadTexts ==
    QuestionTexts \cup { <<>> }
        \cup UNION { { c[i] : i \in 1..Len(c) } : c \in AssistantContents }
FormattedTexts == [text \in ThreadTexts |-> format_weather_response(text)]

\* complete: break, the final message is read and formatted, the response is
\* returned and the session, if modified, is saved
Respond(r) ==
    /\ AtCheck(r)
    /\ is_complete(run[r].status)
    /\ response' = [response EXCEPT ![r] =
            [code |-> 200,
             body |-> [thread_id |-> thread_id[r], run_id |-> run[r].id,
                       status |-> run[r].status,
                       response |-> FormattedTexts[final_text(threads[thread_id[r]])]]]]
    /\ store' = IF sess[r].modified THEN sess[r].dict ELSE store
    /\ pc' = [pc EXCEPT ![r] = "done"]
    /\ UNCHANGED <<threads, runs, data, sess, thread_id, run, tool_outputs, calls, unit>>

(***************************************************************************)
(* The assistant provider works on a queued run.                           *)
(***************************************************************************)
ProviderAdvance(k) ==
    /\ runs[k].status \in {"queued", "in_progress"}
    /\ \/ /\ runs[k].status = "queued"
          /\ runs' = [runs EXCEPT ![k] = [@ EXCEPT !.status = "in_progress",
                                          !.tool_calls = <<>>, !.tool_outputs = <<>>]]
          /\ UNCHANGED threads
       \/ \E o \in Outcomes(k, runs[k].rounds + 1) :
          /\ runs' = [runs EXCEPT ![k] =
                [@ EXCEPT !.status = o.status, !.tool_calls = o.tool_calls,
                          !.tool_outputs = <<>>,
                          !.rounds = IF o.status = "requires_action" THEN @ + 1 ELSE 0]]
          /\ threads' = [threads EXCEPT ![runs[k].thread_id] = Spoken(@, o)]
    /\ UNCHANGED <<store, pc, data, sess, thread_id, run, tool_outputs, response, calls, unit>>

Next ==
    \/ \E r \in Reqs : Receive(r)
    \/ \E r \in Reqs : EnsureThread(r)
    \/ \E r \in Reqs : CreateMessage(r)
    \/ \E r \in Reqs : CreateAndPoll(r)
    \/ \E r \in Reqs : BeginToolCalls(r)
    \/ \E r \in Reqs : DispatchTool(r)
    \/ \E r \in Reqs : SubmitToolOutputs(r)
    \/ \E r \in Reqs : SubmitReturn(r)
    \/ \E r \in Reqs : Sleep(r)
    \/ \E r \in Reqs : Retrieve(r)
    \/ \E r \in Reqs : Respond(r)
    \/ \E k \in 1..Len(runs) : ProviderAdvance(k)

Spec == Init /\ [][Next]_vars

\* the handler of a request that has arrived runs on: each of its steps is
\* taken once it can be
Handler(r) ==
    \/ EnsureThread(r) \/ CreateMessage(r) \/ CreateAndPoll(r) \/ BeginToolCalls(r)
    \/ DispatchTool(r) \/ SubmitToolOutputs(r) \/ SubmitReturn(r) \/ Sleep(r)
    \/ Retrieve(r) \/ Respond(r)

LiveSpec == Init /\ [][Next]_vars /\ \A r \in Reqs : WF_vars(Handler(r))

(***************************************************************************)
(* Requests of the session that do not wait for one another: each worker   *)
(* loads the session as the client's request carries it and saves it with  *)
(* its response; the handler takes no lock.                                *)
(***************************************************************************)
NextRace ==
    \/ \E r \in Reqs : Arrive(r)
    \/ \E r \in Reqs : EnsureThread(r)
    \/ \E r \in Reqs : CreateMessage(r)
    \/ \E r \in Reqs : CreateAndPoll(r)
    \/ \E r \in Reqs : BeginToolCalls(r)
    \/ \E r \in Reqs : DispatchTool(r)
    \/ \E r \in Reqs : SubmitToolOutputs(r)
    \/ \E r \in Reqs : SubmitReturn(r)
    \/ \E r \in Reqs : Sleep(r)
    \/ \E r \in Reqs : Retrieve(r)
    \/ \E r \in Reqs : Respond(r)
    \/ \E k \in 1..Len(runs) : ProviderAdvance(k)

RaceSpec == Init /\ [][NextRace]_vars

(***************************************************************************)
(* The dispatcher on its own: one tool call, of any tool name and any raw  *)
(* argument text of the model, under any answer of the weather provider;   *)
(* then the handler's steps on the result.                                 *)
(***************************************************************************)
RawArguments == DOMAIN JSONTexts \cup {"<not valid JSON>", ""}
\* names that are no tool's
UnknownNames == {"unknown_tool", "get_weather", ""}
UnitToolCalls == [id : { <<1, 1, 1>> }, name : ToolNames \cup UnknownNames,
                  arguments : RawArguments]

InitUnit ==
    /\ InitAsk
    /\ unit \in [at : {"call"}, tool_call : UnitToolCalls, env : Envs]

UnitDispatch ==
    /\ unit.at = "call"
    /\ unit' = [at |-> "returned", tool_call |-> unit.tool_call, env |-> unit.env,
                got |-> get_outputs_for_tools(unit.tool_call, unit.env)]
    /\ UNCHANGED <<store, threads, runs, pc, data, sess, thread_id, run, tool_outputs,
                   response, calls>>

UnitEntry ==
    /\ unit.at = "returned"
    /\ ~unit.got.escaped
    /\ unit' = [at |-> "entry", tool_call |-> unit.tool_call, env |-> unit.env,
                got |-> unit.got,
                entry |-> submit_entry(force_json(validate_result(unit.got.result)))]
    /\ UNCHANGED <<store, threads, runs, pc, data, sess, thread_id, run, tool_outputs,
                   response, calls>>

NextUnit == UnitDispatch \/ UnitEntry

DispatchSpec == InitUnit /\ [][NextUnit]_vars

(***************************************************************************)
(* get_weather_by_city on its own: any arguments the dispatcher can pass    *)
(* it, under any answer of the weather provider.                           *)
(***************************************************************************)
ClientArguments ==
    [city_name : {PyNone, PyStr("London")},
     country_code : {PyNone, PyStr("GB")},
     state_code : {PyNone, PyStr("CA")},
     exclude : {PyNone, PyStr("minutely"), PyList("minutely,hourly"), PyNum("5")}]

InitClient ==
    /\ InitAsk
    /\ unit \in [at : {"client"}, args : ClientArguments, env : Envs]

ClientCall ==
    /\ unit.at = "client"
    /\ unit' = [at |-> "client_returned", args |-> unit.args, env |-> unit.env,
                got |-> get_weather_by_city(unit.args.city_name, PyStr("key"),
                                            unit.args.country_code, unit.args.state_code,
                                            unit.args.exclude, unit.env)]
    /\ UNCHANGED <<store, threads, runs, pc, data, sess, thread_id, run, tool_outputs,
                   response, calls>>

NextClient == ClientCall

ClientSpec == InitClient /\ [][NextClient]_vars

(***************************************************************************)
(* The loop body of ask on its own: the steps from a dispatch result to    *)
(* the submitted batch, for any dict a dispatcher may hand back.           *)
(***************************************************************************)
\* the dicts handed back for the tool call with the given id
ResultSamples(id) ==
    { [tool_call_id |-> id, output |-> "null"],
      [tool_call_id |-> id, output |-> "{\"main\": {\"temp\": 280.3}}"],
      [tool_call_id |-> id, output |-> "sunny"],
      [tool_call_id |-> id, error |-> "Unknown tool: unknown_tool"],
      [tool_call_id |-> id],
      [tool_call_id |-> id, detail |-> "sunny"] }

ResultBatches ==
    UNION { { b \in [1..n -> UNION { ResultSamples(<<1, 1, i>>) : i \in 1..n }] :
                \A i \in 1..n : b[i].tool_call_id = <<1, 1, i>> } : n \in 0..MaxCalls }

InitEntries ==
    /\ InitAsk
    /\ unit \in [at : {"results"}, results : ResultBatches]

\* `for tool_call in tool_calls`: validate, force JSON, append
EntriesLoop ==
    /\ unit.at = "results"
    /\ unit' = [at |-> "outputs", results |-> unit.results,
                tool_outputs |-> [i \in 1..Len(unit.results) |->
                                    force_json(validate_result(unit.results[i]))]]
    /\ UNCHANGED <<store, threads, runs, pc, data, sess, thread_id, run, tool_outputs,
                   response, calls>>

\* the list handed to submit_tool_outputs
EntriesSubmit ==
    /\ unit.at = "outputs"
    /\ unit' = [at |-> "batch", results |-> unit.results,
                tool_outputs |-> unit.tool_outputs,
                batch |-> submit_entries(unit.tool_outputs)]
    /\ UNCHANGED <<store, threads, runs, pc, data, sess, thread_id, run, tool_outputs,
                   response, calls>>

NextEntries == EntriesLoop \/ EntriesSubmit

EntriesSpec == InitEntries /\ [][NextEntries]_vars

(***************************************************************************)
(* The formatter on its own: applied to a text, then to its own result.    *)
(***************************************************************************)
FormatTokens == {"*", " ", "-", "|", "Historical Data", "Fahrenheit"}
FormatTexts == UNION { [1..n -> FormatTokens] : n \in 0..MaxTextLen }

InitFormat ==
    /\ InitAsk
    /\ unit \in [at : {"text"}, text : FormatTexts]

FormatOnce ==
    /\ unit.at = "text"
    /\ unit' = [at |-> "formatted", text |-> unit.text,
                once |-> format_weather_response(unit.text)]
    /\ UNCHANGED <<store, threads, runs, pc, data, sess, thread_id, run, tool_outputs,
                   response, calls>>

FormatTwice ==
    /\ unit.at = "formatted"
    /\ unit' = [at |-> "reformatted", text |-> unit.text, once |-> unit.once,
                twice |-> format_weather_response(unit.once)]
    /\ UNCHANGED <<store, threads, runs, pc, data, sess, thread_id, run, tool_outputs,
                   response, calls>>

NextFormat == FormatOnce \/ FormatTwice

FormatSpec == InitFormat /\ [][NextFormat]_vars

(***************************************************************************)
(* Properties.                                                             *)
(***************************************************************************)
\* the handler of r stands inside its poll loop
InLoop(r) == pc[r] \in {"loop", "tools", "submitting", "check", "sleep"}

\* a submit-tool-outputs call on run k is made in this step
Submitted(k) ==
    /\ k \in 1..Len(runs)
    /\ runs[k].status = "requires_action"
    /\ runs'[k].status = "queued"

\* the batch answers the tool calls one for one
OneEntryPerCall(tool_calls, entries) ==
    /\ Len(entries) = Len(tool_calls)
    /\ \A i \in 1..Len(tool_calls) :
        /\ entries[i].tool_call_id = tool_calls[i].id
        /\ Cardinality({ j \in 1..Len(entries) :
                            entries[j].tool_call_id = tool_calls[i].id }) = 1

\* C1: every observation of requires_action with N pending tool calls is
\* followed by exactly one submit-tool-outputs call, made when all N calls
\* are dispatched, and the batch it carries has exactly N entries, the i-th
\* one answering the i-th tool call under its tool_call_id; no submit call is
\* made otherwise.
C1_OneSubmitPerObservation ==
    [][ /\ \A r \in Reqs :
            /\ (pc[r] = "loop" /\ run[r].status = "requires_action")
                    => (pc'[r] = "tools" \/ (pc'[r] = "loop" /\ run'[r] = run[r]))
            /\ (pc[r] = "tools" /\ pc'[r] # "tools")
                    => /\ pc'[r] = "submitting"
                       /\ Submitted(run[r].id)
                       /\ OneEntryPerCall(run[r].tool_calls, runs'[run[r].id].tool_outputs)
                       /\ runs'[run[r].id].tool_calls = run[r].tool_calls
        /\ \A k \in 1..Len(runs) :
            Submitted(k) => \E r \in Reqs :
                                pc[r] = "tools" /\ pc'[r] = "submitting" /\ run[r].id = k
      ]_vars

\* C1, witness: a batch of two entries, one of them an error, has been
\* submitted for a payload of two tool calls
C1_Witness ==
    \E k \in 1..Len(runs) :
        /\ runs[k].status = "queued"
        /\ Len(runs[k].tool_calls) = 2
        /\ Len(runs[k].tool_outputs) = 2
        /\ \E i \in 1..2 : runs[k].tool_outputs[i].output
                            = json_dumps_object("error", "Unknown tool: unknown_tool")

\* C2: the dispatcher is total: for every tool call and every behaviour of
\* the underlying operation no exception leaves it, and the dict it returns
\* carries the call's id and exactly one of the keys output / error.
C2_DispatcherTotal ==
    unit.at = "returned" =>
        /\ ~unit.got.escaped
        /\ DOMAIN unit.got.result \subseteq {"tool_call_id", "output", "error"}
        /\ unit.got.result.tool_call_id = unit.tool_call.id
        /\ ("output" \in DOMAIN unit.got.result) # ("error" \in DOMAIN unit.got.result)

\* C2, witness: the underlying operation raised (a geocoding match without
\* lat) and the dispatcher returned
C2_Witness ==
    /\ unit.at = "returned"
    /\ unit.tool_call.name = "get_weather_by_city"
    /\ unit.env.geo = "no_latlon"
    /\ "error" \in DOMAIN unit.got.result
    /\ unit.got.result.error = "Error executing tool: 'lat'"

\* the request body holds no question: the key is absent or the text empty
EmptyOrAbsent(body) == body = <<>> \/ body = [question |-> <<>>]

\* request r has arrived with a question
Accepted(r) == pc[r] # "idle" /\ ~EmptyOrAbsent(data[r])

\* a tool call of r's batch has ended in an error
HasToolError(r) ==
    /\ pc[r] = "tools"
    /\ \E i \in 1..Len(tool_outputs[r]) : "error" \in DOMAIN tool_outputs[r][i]

\* the answer of r is none yet, the normal response of an accepted request,
\* or the rejection of an empty or missing question
C3_Answered(r) ==
    /\ response[r].code \in {0, 200, 400}
    /\ response[r].code = 400 <=> (pc[r] # "idle" /\ EmptyOrAbsent(data[r]))
    /\ (Accepted(r) /\ pc[r] = "done")
            => /\ response[r].code = 200
               /\ DOMAIN response[r].body = {"thread_id", "run_id", "status", "response"}

\* C3: no tool-level error aborts an accepted request: the handler answers
\* only with 200 or, for an empty or missing question alone, with 400; a
\* batch in which a call ended in an error is submitted whole, the error
\* included as the entry of its call, and the handler goes on to the answer
\* of the submission; after an error the handler's next step, the next dispatch or the
\* submission, is open to it; and an accepted request that returns returns
\* the normal response.
C3_ToolErrorsDoNotAbort ==
    /\ [][\A r \in Reqs :
            /\ C3_Answered(r) /\ C3_Answered(r)'
            /\ (HasToolError(r) /\ pc'[r] # "tools")
                => /\ pc'[r] = "submitting"
                   /\ Submitted(run[r].id)
                   /\ Len(runs'[run[r].id].tool_outputs) = Len(run[r].tool_calls)
                   /\ \A i \in 1..Len(tool_outputs[r]) :
                        "error" \in DOMAIN tool_outputs[r][i]
                            => runs'[run[r].id].tool_outputs[i]
                                = [tool_call_id |-> run[r].tool_calls[i].id,
                                   output |-> json_dumps_object("error",
                                                    tool_outputs[r][i].error)]
         ]_vars
    /\ [](\A r \in Reqs :
            HasToolError(r) => ENABLED (DispatchTool(r) \/ SubmitToolOutputs(r)))

\* C3, witness: a batch with the error of a tool that raised is submitted
\* and the handler stands at its status check
C3_Witness ==
    \E r \in Reqs :
        /\ pc[r] = "check"
        /\ \E i \in 1..Len(runs[run[r].id].tool_outputs) :
            runs[run[r].id].tool_outputs[i].output
                = json_dumps_object("error",
                    "Error executing tool: Invalid isoformat string: 'tomorrow'")

\* C4: the handler leaves its loop, and returns, exactly on observing
\* completed, failed or expired: it returns from the status check alone and
\* only on such a status; on any other status it stays in the loop; and once
\* the run of an accepted request has reached one of the three statuses the
\* handler returns.
C4_ExitIffTerminal ==
    /\ [][\A r \in Reqs :
            /\ (InLoop(r) /\ pc'[r] = "done")
                    => (AtCheck(r) /\ run[r].status \in ExitStatuses
                        /\ response'[r].code = 200)
            /\ (AtCheck(r) /\ run[r].status \in ExitStatuses)
                    => (pc'[r] \in {pc[r], "done"} /\ run'[r] = run[r])
            /\ (AtCheck(r) /\ run[r].status \notin ExitStatuses)
                    => pc'[r] \in {pc[r], "sleep"}
         ]_vars
    /\ \A r \in Reqs :
        (InLoop(r) /\ runs[run[r].id].status \in ExitStatuses) ~> (pc[r] = "done")

\* C4, witness: the handler stands at its status check on a status that is
\* none of the three, while the run has expired at the provider
C4_Witness ==
    \E r \in Reqs :
        /\ pc[r] = "check"
        /\ run[r].status = "queued"
        /\ runs[run[r].id].status = "expired"

\* C5: a 200 response carries the session's thread id, the id of the run
\* started for this question, and a status among completed, failed, expired
\* that is the status last observed for that run.
C5_ResponseFields ==
    \A r \in Reqs :
        response[r].code = 200 =>
            /\ DOMAIN response[r].body = {"thread_id", "run_id", "status", "response"}
            /\ response[r].body.thread_id = sess[r].dict.thread_id
            /\ store = [thread_id |-> response[r].body.thread_id]
            /\ response[r].body.run_id \in 1..Len(runs)
            /\ runs[response[r].body.run_id].started_by = r
            /\ runs[response[r].body.run_id].thread_id = response[r].body.thread_id
            /\ response[r].body.status \in {"completed", "failed", "expired"}
            /\ run[r].id = response[r].body.run_id
            /\ response[r].body.status = run[r].status
            /\ response[r].body.status = runs[response[r].body.run_id].status

\* C5, witness: a second question whose run failed is answered with 200
C5_Witness ==
    /\ response[1].code = 200
    /\ response[2].code = 200
    /\ response[2].body.status = "failed"
    /\ response[2].body.run_id = 2

\* the index of the latest message of the assistant, 0 if it has left none
LatestAssistant(messages) ==
    LET idx == { i \in 1..Len(messages) : messages[i].role = "assistant" }
    IN  IF idx = {} THEN 0 ELSE CHOOSE i \in idx : \A j \in idx : i <= j

\* C6: the response text is the formatted first content block of the latest
\* assistant message on the thread, never text of a user message (read when
\* the handler has returned and no later request has touched the thread).
C6_ResponseFromAssistantMessage ==
    \A r \in Reqs :
        (response[r].code = 200 /\ \A o \in Reqs : o > r => pc[o] = "idle") =>
            LET messages == threads[thread_id[r]].messages
                i == LatestAssistant(messages)
            IN  /\ i # 0
                /\ response[r].body.response
                        = format_weather_response(messages[i].content[1])

\* C7: a request with an empty or missing question is answered with 400 and
\* {"error": "No question provided"}, makes no create-thread, create-message
\* or run call, and leaves the session store, the threads and the runs as
\* they are.
C7_EmptyQuestionRejected ==
    /\ [](\A r \in Reqs :
            (pc[r] # "idle" /\ EmptyOrAbsent(data[r]))
                => /\ pc[r] = "done"
                   /\ response[r] = [code |-> 400,
                                     body |-> [error |-> "No question provided"]]
                   /\ calls[r] = NoCalls)
    /\ [][\A r \in Reqs :
            (pc[r] = "idle" /\ pc'[r] # "idle" /\ EmptyOrAbsent(data'[r]))
                => UNCHANGED <<store, threads, runs>>
         ]_vars

\* C7, witness: an empty question is rejected after the session got its thread
C7_Witness ==
    /\ store = [thread_id |-> 1]
    /\ pc[2] = "done"
    /\ data[2] = [question |-> <<>>]
    /\ response[2].code = 400

\* the number of user messages on a thread
UserMessages(thread) ==
    Cardinality({ i \in 1..Len(thread.messages) : thread.messages[i].role = "user" })

\* C8: for requests handled one after the other, create-thread is called
\* once, by the first accepted request; the thread id in the session store,
\* once set, is not changed or removed; and every accepted request posts its
\* message and starts its run on that thread.
C8_OneThreadPerSession ==
    /\ [](/\ Len(threads) <= 1
          /\ \A k \in 1..Len(runs) : runs[k].thread_id = 1
          /\ Len(threads) = 1 =>
                UserMessages(threads[1])
                    = Cardinality({ r \in Reqs : calls[r].create_message = 1 })
          /\ \A r \in Reqs :
                /\ (Accepted(r) /\ pc[r] # "thread")
                    => /\ Len(threads) = 1
                       /\ thread_id[r] = 1
                       /\ threads[1].created_by
                            = CHOOSE o \in Reqs : Accepted(o)
                                                  /\ \A q \in Reqs : Accepted(q) => o <= q
                       /\ calls[r].create_thread
                            = IF threads[1].created_by = r THEN 1 ELSE 0
                /\ (Accepted(r) /\ pc[r] = "done") => store = [thread_id |-> 1]
                /\ ~Accepted(r) => calls[r].create_thread = 0)
    /\ [][ "thread_id" \in DOMAIN store => store' = store ]_vars

\* C8, witness: two accepted requests have been answered on the one thread
C8_Witness ==
    /\ response[1].code = 200
    /\ response[2].code = 200
    /\ Len(threads) = 1
    /\ UserMessages(threads[1]) = 2

\* C9: an accepted question appends one user message and starts one run, in
\* the order thread, message, run, loop: the message is created on an ensured
\* thread, the run after the message, tools are dispatched and outputs
\* submitted only for a started run, and the loop creates no message and
\* starts no run.
C9_OneMessageOneRunInOrder ==
    /\ [](/\ \A r \in Reqs :
                /\ calls[r].create_message <= 1
                /\ calls[r].create_run <= calls[r].create_message
                /\ calls[r].create_message = 1 => thread_id[r] \in 1..Len(threads)
                /\ (InLoop(r) \/ response[r].code = 200)
                        => (calls[r].create_message = 1 /\ calls[r].create_run = 1)
                /\ (pc[r] = "tools" \/ tool_outputs[r] # <<>>) => calls[r].create_run = 1
          /\ Len(runs) = Cardinality({ r \in Reqs : calls[r].create_run = 1 })
          /\ \A t \in 1..Len(threads) :
                UserMessages(threads[t])
                    = Cardinality({ r \in Reqs : calls[r].create_message = 1
                                                 /\ thread_id[r] = t }))
    /\ [][ /\ \A r \in Reqs :
                /\ calls'[r].create_message # calls[r].create_message
                        => (pc[r] = "message" /\ pc'[r] = "run")
                /\ calls'[r].create_run # calls[r].create_run
                        => (pc[r] = "run" /\ pc'[r] = "loop"
                            /\ calls[r].create_message = 1)
                /\ InLoop(r) => calls'[r] = calls[r]
           /\ \A k \in 1..Len(runs) :
                Submitted(k) => calls[runs[k].started_by].create_run = 1
           /\ Len(runs') # Len(runs) => \E r \in Reqs : pc[r] = "run"
       ]_vars

\* C9, witness: the second accepted question has its message on the thread
\* and its run started, and a tool of that run has been dispatched
C9_Witness ==
    /\ calls[2] = [create_thread |-> 0, create_message |-> 1, create_run |-> 1]
    /\ pc[2] = "tools"
    /\ Len(tool_outputs[2]) = 1

\* the weather client returned absence (None) to the dispatcher
ClientReturnedAbsence(tool_call, env) ==
    LET parsed == json_loads(tool_call.arguments) IN
    /\ parsed.ok
    /\ HasGet(parsed.value)
    /\ tool_call.name \in {"get_weather_by_city", "get_openweather_onecall",
                           "get_historical_weather"}
    /\ LET r == tool_dispatcher(tool_call.name, parsed.value, env)
       IN  ~r.raised /\ r.value.t = "None"

\* C10: when the weather client returns absence for a lookup, the
\* dispatcher's result for the tool call has error set and no output.
C10_AbsenceIsError ==
    (unit.at = "returned" /\ ClientReturnedAbsence(unit.tool_call, unit.env))
        => /\ "error" \in DOMAIN unit.got.result
           /\ "output" \notin DOMAIN unit.got.result

\* the dispatcher has returned from the tool call of the unit
UnitReturned == unit.at \in {"returned", "entry"}

\* C11: a tool call whose name is none of the four tools and whose arguments
\* parse gets the error "Unknown tool: <name>" under its tool_call_id and no
\* output, and no weather or time operation is invoked for it.
C11_UnknownToolError ==
    (/\ UnitReturned
     /\ unit.tool_call.name \notin ToolNames
     /\ json_loads(unit.tool_call.arguments).ok)
        => /\ ~unit.got.escaped
           /\ unit.got.result = [tool_call_id |-> unit.tool_call.id,
                                 error |-> "Unknown tool: " \o unit.tool_call.name]
           /\ unit.got.calls = <<>>

\* the dispatcher has answered an unknown name sent with the arguments {}
C11_Witness ==
    /\ UnitReturned
    /\ unit.tool_call.name = "unknown_tool"
    /\ unit.tool_call.arguments = "{}"
    /\ unit.got.result.error = "Unknown tool: unknown_tool"

\* C12: whatever the tool's name, known or not, arguments that do not parse
\* as JSON get an error that says so under the tool_call_id and no output; no
\* weather or time operation is invoked and nothing is raised.  The parse
\* comes before the look at the name.
C12_InvalidArgumentsError ==
    (UnitReturned /\ unit.tool_call.arguments \notin DOMAIN JSONTexts)
        => /\ ~unit.got.escaped
           /\ unit.got.result =
                [tool_call_id |-> unit.tool_call.id,
                 error |-> "Invalid JSON in arguments: "
                            \o "Expecting value: line 1 column 1 (char 0)"]
           /\ unit.got.calls = <<>>

\* an unknown name sent with text that does not parse got the parse error
C12_Witness ==
    /\ UnitReturned
    /\ unit.tool_call.name = "unknown_tool"
    /\ unit.tool_call.arguments = "<not valid JSON>"
    /\ "error" \in DOMAIN unit.got.result
    /\ unit.got.result.error # "Unknown tool: unknown_tool"

\* the text holds the pattern somewhere
Occurs(s, pat) == \E i \in 1..(Len(s) - Len(pat) + 1) : SubSeq(s, i, i + Len(pat) - 1) = pat

\* the text still holds something the formatter rewrites
HasTrigger(s) ==
    \/ Occurs(s, <<"*", "*">>)
    \/ Occurs(s, <<"Fahrenheit">>)
    \/ Occurs(s, <<"Celsius">>)
    \/ Occurs(s, <<" ", "-", " ">>)
    \/ /\ Occurs(s, <<"historical data">>) \/ Occurs(s, <<"Historical Data">>)
       /\ Occurs(s, <<"|">>)

\* C13 (as claimed): formatting a formatted text changes nothing, for every
\* text.
C13_FormatIdempotent ==
    unit.at = "reformatted" => unit.twice = unit.once

\* C13 (amended): formatting a formatted text changes nothing when the
\* formatted text holds none of the patterns the formatter rewrites.
C13_FormatIdempotentOnceSettled ==
    (unit.at = "reformatted" /\ ~HasTrigger(unit.once)) => unit.twice = unit.once

\* a text the formatter rewrote into one it leaves alone
C13_Witness ==
    /\ unit.at = "reformatted"
    /\ unit.text = <<"*", "*", " ", "-", " ">>
    /\ unit.once = <<"*", "\n", "-", " ">>
    /\ ~HasTrigger(unit.once)
    /\ unit.twice = unit.once

\* C14: however the requests of one session interleave, also when two of
\* them arrive before the session holds a thread id, the session's thread is
\* created once and every request posts and runs on that one thread.
C14_OneThreadUnderInterleaving ==
    /\ Len(threads) <= 1
    /\ \A r \in Reqs : calls[r].create_thread > 0 =>
            \A o \in Reqs \ {r} : calls[o].create_thread = 0
    /\ \A r, o \in Reqs :
            (thread_id[r] # 0 /\ thread_id[o] # 0) => thread_id[r] = thread_id[o]

\* the status r's handler has last observed for its run ends the loop
SawTerminal(r) ==
    /\ pc[r] \in {"loop", "check", "sleep"}
    /\ run[r].status \in {"completed", "failed", "expired"}

\* C15: the poll discipline of the loop.  Tool calls are dispatched and
\* their outputs submitted only while the status last observed is
\* requires_action; the handler waits only at its status check and on a
\* status last observed, after any submission, that is none of completed,
\* failed, expired; the run is re-fetched only after such a wait, one wait
\* for one fetch; and once one of the three statuses has been observed, from
\* create-and-poll, from the submission or from a fetch, the handler neither
\* waits, fetches, dispatches nor submits again: it returns.
C15_PollDiscipline ==
    [][\A r \in Reqs :
        /\ ((pc'[r] \in {"tools", "submitting"} /\ pc'[r] # pc[r])
                \/ tool_outputs'[r] # tool_outputs[r])
                => (pc[r] \in {"loop", "tools"} /\ run[r].status = "requires_action")
        /\ pc[r] \in {"tools", "submitting"} => run[r].status = "requires_action"
        /\ (pc'[r] = "sleep" /\ pc[r] # "sleep")
                => /\ pc[r] \in {"loop", "check"}
                   /\ run[r].status \notin {"completed", "failed", "expired"}
                   /\ run'[r] = run[r]
        /\ (pc[r] \in {"loop", "check", "sleep"} /\ run'[r] # run[r])
                => /\ pc[r] = "sleep" /\ pc'[r] = "loop"
                   /\ run'[r].id = run[r].id
                   /\ run'[r].status = runs[run[r].id].status
        /\ pc[r] = "sleep" => pc'[r] \in {"sleep", "loop"}
        /\ SawTerminal(r)
                => /\ pc[r] # "sleep"
                   /\ run'[r] = run[r]
                   /\ tool_outputs'[r] = tool_outputs[r]
                   /\ runs'[run[r].id] = runs[run[r].id]
                   /\ pc'[r] \in {pc[r], "done"}
      ]_vars

\* C15, witness: the answer to a submission showed the run failed, and the
\* handler stands at its status check
C15_Witness ==
    \E r \in Reqs :
        /\ pc[r] = "check"
        /\ SawTerminal(r)
        /\ run[r].status = "failed"

\* C16: the entry submitted for a tool call holds the call's id and an
\* output that is a non-empty string and parses as JSON: the serialized
\* result of the dispatcher for a success (wrapped as {"result": ...} had it
\* not parsed), the serialized object {"error": <message>} for an error.
C16_EntriesAreJSON ==
    unit.at = "entry" =>
        /\ DOMAIN unit.entry = {"tool_call_id", "output"}
        /\ unit.entry.tool_call_id = unit.tool_call.id
        /\ unit.entry.output # ""
        /\ json_loads(unit.entry.output).ok
        /\ "output" \in DOMAIN unit.got.result
                => unit.entry.output =
                        IF json_loads(unit.got.result.output).ok
                        THEN unit.got.result.output
                        ELSE "{\"result\": \"" \o unit.got.result.output \o "\"}"
        /\ "output" \notin DOMAIN unit.got.result
                => unit.entry.output = "{\"error\": \"" \o unit.got.result.error \o "\"}"

\* C16, witness: the entry of a call whose tool raised, and parsed again
C16_Witness ==
    /\ unit.at = "entry"
    /\ unit.entry.output = "{\"error\": \"Error executing tool: 'lat'\"}"
    /\ json_loads(unit.entry.output).value
            = PyDict([error |-> PyStr("Error executing tool: 'lat'")])

\* the text holds the pattern somewhere
InText(text, pat) ==
    \E i \in 1..(Len(text) - Len(pat) + 1) : SubSeq(text, i, i + Len(pat) - 1) = pat

\* the operation of the unit's tool call, a known tool with arguments that
\* parse, raised
OperationRaised ==
    /\ UnitReturned
    /\ unit.tool_call.name \in ToolNames
    /\ json_loads(unit.tool_call.arguments).ok
    /\ tool_dispatcher(unit.tool_call.name, json_loads(unit.tool_call.arguments).value,
                       unit.env).raised

\* the message of the exception it raised
RaisedMessage ==
    tool_dispatcher(unit.tool_call.name, json_loads(unit.tool_call.arguments).value,
                    unit.env).msg

\* C17 (as claimed): when the operation of a known tool raises, nothing
\* leaves the dispatcher and the dict it returns for the tool_call_id
\* carries the exception's message and a diagnostic trace.
C17_EnvelopeCarriesTrace ==
    OperationRaised
        => /\ ~unit.got.escaped
           /\ unit.got.result.tool_call_id = unit.tool_call.id
           /\ "error" \in DOMAIN unit.got.result
           /\ InText(unit.got.result.error, RaisedMessage)
           /\ \E key \in DOMAIN unit.got.result \ {"tool_call_id"} :
                    InText(unit.got.result[key], "Traceback")

\* C17 (amended): when the operation of a known tool raises, nothing leaves
\* the dispatcher and the dict it returns holds the tool_call_id and the
\* error "Error executing tool: <message>", nothing else; the diagnostic
\* trace is printed and handed to the tracing span only.
C17_EnvelopeCarriesMessage ==
    OperationRaised
        => /\ ~unit.got.escaped
           /\ unit.got.result = [tool_call_id |-> unit.tool_call.id,
                                 error |-> "Error executing tool: " \o RaisedMessage]
           /\ InText(unit.got.span.traceback, "Traceback")
           /\ InText(unit.got.printed, "Traceback")

\* C17, witness: datetime_to_utc_timestamp was called without dt
C17_Witness ==
    /\ OperationRaised
    /\ unit.tool_call.name = "datetime_to_utc_timestamp"
    /\ unit.tool_call.arguments = "{}"
    /\ unit.got.result.error = "Error executing tool: fromisoformat: argument must be str"

\* C18: get_weather_by_city never raises and returns a weather record or
\* None: None without a conditions fetch when the geocoding result is empty,
\* None when a stage fails in transport or with an HTTP error, None as well
\* when the provider's answer is malformed (a match without lat / lon, a
\* body that is no JSON); the conditions fetch is made only after a
\* geocoding lookup that gave a match.
C18_ClientNeverRaises ==
    unit.at = "client_returned" =>
        /\ ~unit.got.raised
        /\ unit.got.value \in {PyNone, WeatherRecord}
        /\ unit.env.geo # "match" =>
                /\ unit.got.value = PyNone
                /\ unit.got.calls = <<"get_weather_by_city">>
        /\ (unit.env.geo = "match" /\ unit.env.http # "ok") => unit.got.value = PyNone

\* the dict holds neither output nor error
Malformed(result) == "output" \notin DOMAIN result /\ "error" \notin DOMAIN result

\* C19: a dispatch result that holds neither output nor error is given the
\* error "Invalid tool response format" in the loop and is submitted like
\* any other, as the entry of its tool_call_id: the batch has one entry for
\* each result.
C19_MalformedResultCoerced ==
    unit.at = "batch" =>
        /\ Len(unit.batch) = Len(unit.results)
        /\ \A i \in 1..Len(unit.results) :
            /\ unit.batch[i].tool_call_id = unit.results[i].tool_call_id
            /\ Malformed(unit.results[i])
                => /\ "error" \in DOMAIN unit.tool_outputs[i]
                   /\ unit.tool_outputs[i].error = "Invalid tool response format"
                   /\ unit.batch[i].output
                        = "{\"error\": \"Invalid tool response format\"}"

\* C19, witness: a batch of two, the second result with neither key
C19_Witness ==
    /\ unit.at = "batch"
    /\ Len(unit.results) = 2
    /\ unit.results[1] = [tool_call_id |-> <<1, 1, 1>>, output |-> "null"]
    /\ unit.results[2] = [tool_call_id |-> <<1, 1, 2>>]
    /\ unit.batch[1].output = "null"
    /\ unit.batch[2].output = "{\"error\": \"Invalid tool response format\"}"

\* argument texts that parse to a value that is no object
NonObjectTexts == {"null", "5", "1680964200", "\"London\"", "[\"London\"]"}

\* C20: arguments of a known tool that parse as JSON but to no object
\* (null, a number, a string, an array) invoke no weather or time operation;
\* the failed attribute lookup is caught at the dispatcher's boundary, which
\* returns an error for the tool_call_id, no output, and lets nothing escape.
C20_NonObjectArguments ==
    (/\ UnitReturned
     /\ unit.tool_call.name \in ToolNames
     /\ unit.tool_call.arguments \in NonObjectTexts)
        => /\ ~unit.got.escaped
           /\ unit.got.calls = <<>>
           /\ DOMAIN unit.got.result = {"tool_call_id", "error"}
           /\ unit.got.result.tool_call_id = unit.tool_call.id
           /\ InText(unit.got.result.error, "object has no attribute 'get'")

\* C20, witness: get_weather_by_city was called with the arguments null
C20_Witness ==
    /\ UnitReturned
    /\ unit.tool_call.name = "get_weather_by_city"
    /\ unit.tool_call.arguments = "null"
    /\ unit.got.calls = <<>>
    /\ unit.got.result.error
            = "Error executing tool: 'NoneType' object has no attribute 'get'"

====
